---- MODULE Spec2Model ----
(***************************************************************************)
(* The sleeping teaching assistant simulation of TA_Sim.c: one TA thread,  *)
(* num_students student threads and the main thread, synchronised by one   *)
(* pthread mutex and one counting semaphore.  Every thread is a small      *)
(* program-counter machine whose steps are the statements between two      *)
(* synchronisation calls.  A student's sleep() calls touch nothing shared  *)
(* and belong to the step that ends with its next synchronisation call:    *)
(* the position "programming" spans lines 289/302, 249 and 257-259.        *)
(***************************************************************************)
EXTENDS Integers, FiniteSets, Sequences, TLC

\* ---- bounds of the model (the program reads both values with scanf) ----
MaxStudents == 2
MaxChairs == 2

\* #define HELP_REQUESTS_PER_STUDENT 3
HELP_REQUESTS_PER_STUDENT == 3

\* thread identities: students are 1..num_students (student_ids[i] = i + 1)
TA == 0
MAIN == -1

VARIABLES
    num_students,       \* int num_students
    num_chairs,         \* int num_chairs
    waiting_students,   \* int waiting_students
    students_finished,  \* int students_finished
    all_done,           \* int all_done (0 or 1)
    mutex,              \* pthread_mutex_t mutex: the set of threads inside lock()..unlock()
    students_sem,       \* sem_t students_sem: its count
    student_pc,         \* position of every student thread
    student_i,          \* the loop counter i of every student thread
    ta_pc,              \* position of the TA thread
    main_pc,            \* position of main
    main_i,             \* the loop counter i of main's join loop
    admitted,           \* per student: times "Sitting in hallway" was printed
    rejected,           \* per student: times "Hallway full" was printed
    helped,             \* times the TA printed "Helping a student"
    posted,             \* per student: sem_post calls that have returned
    consumed            \* sem_wait calls of the TA that have returned

vars == <<num_students, num_chairs, waiting_students, students_finished,
          all_done, mutex, students_sem, student_pc, student_i, ta_pc,
          main_pc, main_i, admitted, rejected, helped, posted, consumed>>

config == <<num_students, num_chairs>>
ghost == <<admitted, rejected, helped, posted, consumed>>

Students == 1..num_students

\* main() line 63: the inputs that pass validation
ValidInput(n, c) == ~(n <= 0 \/ c < 0)

\* the state after main has initialised the primitives and created all threads
Init ==
    /\ num_students \in 0..MaxStudents
    /\ num_chairs \in 0..MaxChairs
    /\ ValidInput(num_students, num_chairs)
    /\ waiting_students = 0
    /\ students_finished = 0
    /\ all_done = 0
    /\ mutex = {}
    /\ students_sem = 0
    /\ student_pc = [s \in Students |-> "programming"]
    /\ student_i = [s \in Students |-> 0]
    /\ ta_pc = "sem_wait"
    /\ main_pc = "join_students"
    /\ main_i = 0
    /\ admitted = [s \in Students |-> 0]
    /\ rejected = [s \in Students |-> 0]
    /\ helped = 0
    /\ posted = [s \in Students |-> 0]
    /\ consumed = 0

\* ---- the two primitives ------------------------------------------------
\* a lock that never blocks
CanLock_Always(t) == TRUE
\* pthread_mutex_lock blocks until no thread holds the mutex
CanLock(t) == mutex = {}
Lock(t) == mutex' = mutex \cup {t}
\* an unlock that was forgotten
Unlock_Forgotten(t) == mutex' = mutex
\* pthread_mutex_unlock
Unlock(t) == mutex' = mutex \ {t}
\* a wait that needs two pending posts
CanSemWait_OffByOne == students_sem > 1
\* sem_wait blocks until the count is positive
CanSemWait == students_sem > 0

\* ---- student_thread ----------------------------------------------------
\* a loop that runs once too often
MoreRequests_LE(i) == i <= HELP_REQUESTS_PER_STUDENT
\* the condition of the for loop, line 249
MoreRequests(i) == i < HELP_REQUESTS_PER_STUDENT
\* the capacity test left out
ChairFree_Always == TRUE
\* the capacity test off by one
ChairFree_LE == waiting_students <= num_chairs
\* the test of line 271
ChairFree == waiting_students < num_chairs

\* the position a student reaches when an attempt is over: i++ and the
\* loop test of line 249
AfterAttempt(i) == IF MoreRequests(i + 1) THEN "programming" ELSE "finish"

\* lines 257-268: sleep(program_time), then pthread_mutex_lock
StudentLock(s) ==
    /\ student_pc[s] = "programming"
    /\ CanLock(s)
    /\ Lock(s)
    /\ student_pc' = [student_pc EXCEPT ![s] = "try_seat"]
    /\ UNCHANGED <<config, waiting_students, students_finished, all_done,
                   students_sem, student_i, ta_pc, main_pc, main_i, ghost>>

\* a student counted as waiting before the test, also when the hallway is full
StudentTrySeat_CountsRejected(s) ==
    /\ student_pc[s] = "try_seat"
    /\ waiting_students' = waiting_students + 1
    /\ IF ChairFree
         THEN /\ admitted' = [admitted EXCEPT ![s] = @ + 1]
              /\ student_pc' = [student_pc EXCEPT ![s] = "unlock_seated"]
              /\ UNCHANGED rejected
         ELSE /\ rejected' = [rejected EXCEPT ![s] = @ + 1]
              /\ student_pc' = [student_pc EXCEPT ![s] = "unlock_full"]
              /\ UNCHANGED admitted
    /\ UNCHANGED <<config, students_finished, all_done, mutex, students_sem,
                   student_i, ta_pc, main_pc, main_i, helped, posted,
                   consumed>>

\* lines 271-274 and 298: the test and the branch taken under the mutex
StudentTrySeat(s) ==
    /\ student_pc[s] = "try_seat"
    /\ IF ChairFree
         THEN /\ waiting_students' = waiting_students + 1
              /\ admitted' = [admitted EXCEPT ![s] = @ + 1]
              /\ student_pc' = [student_pc EXCEPT ![s] = "unlock_seated"]
              /\ UNCHANGED rejected
         ELSE /\ rejected' = [rejected EXCEPT ![s] = @ + 1]
              /\ student_pc' = [student_pc EXCEPT ![s] = "unlock_full"]
              /\ UNCHANGED <<waiting_students, admitted>>
    /\ UNCHANGED <<config, students_finished, all_done, mutex, students_sem,
                   student_i, ta_pc, main_pc, main_i, helped, posted,
                   consumed>>

\* line 277: pthread_mutex_unlock on the seated branch
StudentUnlockSeated(s) ==
    /\ student_pc[s] = "unlock_seated"
    /\ Unlock(s)
    /\ student_pc' = [student_pc EXCEPT ![s] = "sem_post"]
    /\ UNCHANGED <<config, waiting_students, students_finished, all_done,
                   students_sem, student_i, ta_pc, main_pc, main_i, ghost>>

\* lines 280-289 and 249: sem_post(&students_sem), sleep(1), i++
StudentPost(s) ==
    /\ student_pc[s] = "sem_post"
    /\ students_sem' = students_sem + 1
    /\ student_i' = [student_i EXCEPT ![s] = @ + 1]
    /\ student_pc' = [student_pc EXCEPT ![s] = AfterAttempt(student_i[s])]
    /\ posted' = [posted EXCEPT ![s] = @ + 1]
    /\ UNCHANGED <<config, waiting_students, students_finished, all_done,
                   mutex, ta_pc, main_pc, main_i, admitted, rejected, helped,
                   consumed>>

\* the sem_post placed after the if, so that the hallway-full branch posts too
StudentUnlockFull_Posts(s) ==
    /\ student_pc[s] = "unlock_full"
    /\ Unlock(s)
    /\ students_sem' = students_sem + 1
    /\ posted' = [posted EXCEPT ![s] = @ + 1]
    /\ student_i' = [student_i EXCEPT ![s] = @ + 1]
    /\ student_pc' = [student_pc EXCEPT ![s] = AfterAttempt(student_i[s])]
    /\ UNCHANGED <<config, waiting_students, students_finished, all_done,
                   ta_pc, main_pc, main_i, admitted, rejected, helped,
                   consumed>>

\* lines 299-302 and 249: pthread_mutex_unlock on the hallway-full branch,
\* sleep(1), i++
StudentUnlockFull(s) ==
    /\ student_pc[s] = "unlock_full"
    /\ Unlock(s)
    /\ student_i' = [student_i EXCEPT ![s] = @ + 1]
    /\ student_pc' = [student_pc EXCEPT ![s] = AfterAttempt(student_i[s])]
    /\ UNCHANGED <<config, waiting_students, students_finished, all_done,
                   students_sem, ta_pc, main_pc, main_i, ghost>>

\* line 313: pthread_mutex_lock before marking the student finished
StudentFinishLock(s) ==
    /\ student_pc[s] = "finish"
    /\ CanLock(s)
    /\ Lock(s)
    /\ student_pc' = [student_pc EXCEPT ![s] = "mark_finished"]
    /\ UNCHANGED <<config, waiting_students, students_finished, all_done,
                   students_sem, student_i, ta_pc, main_pc, main_i, ghost>>

\* the count compared before it is incremented, so that no student sets the flag
StudentMarkFinished_Never(s) ==
    /\ student_pc[s] = "mark_finished"
    /\ students_finished' = students_finished + 1
    /\ all_done' = IF students_finished = num_students THEN 1 ELSE all_done
    /\ student_pc' = [student_pc EXCEPT ![s] = "unlock_finished"]
    /\ UNCHANGED <<config, waiting_students, mutex, students_sem, student_i,
                   ta_pc, main_pc, main_i, ghost>>

\* every finishing student setting the flag
StudentMarkFinished_Always(s) ==
    /\ student_pc[s] = "mark_finished"
    /\ students_finished' = students_finished + 1
    /\ all_done' = 1
    /\ student_pc' = [student_pc EXCEPT ![s] = "unlock_finished"]
    /\ UNCHANGED <<config, waiting_students, mutex, students_sem, student_i,
                   ta_pc, main_pc, main_i, ghost>>

\* lines 314-319: students_finished++ and the all_done test
StudentMarkFinished(s) ==
    /\ student_pc[s] = "mark_finished"
    /\ students_finished' = students_finished + 1
    /\ all_done' = IF students_finished + 1 = num_students THEN 1 ELSE all_done
    /\ student_pc' = [student_pc EXCEPT ![s] = "unlock_finished"]
    /\ UNCHANGED <<config, waiting_students, mutex, students_sem, student_i,
                   ta_pc, main_pc, main_i, ghost>>

\* lines 320-322: pthread_mutex_unlock, pthread_exit
StudentExit(s) ==
    /\ student_pc[s] = "unlock_finished"
    /\ Unlock(s)
    /\ student_pc' = [student_pc EXCEPT ![s] = "exited"]
    /\ UNCHANGED <<config, waiting_students, students_finished, all_done,
                   students_sem, student_i, ta_pc, main_pc, main_i, ghost>>

student_thread(s) ==
    \/ StudentLock(s)
    \/ StudentTrySeat(s)
    \/ StudentUnlockSeated(s)
    \/ StudentPost(s)
    \/ StudentUnlockFull(s)
    \/ StudentFinishLock(s)
    \/ StudentMarkFinished(s)
    \/ StudentExit(s)

\* ---- ta_thread ---------------------------------------------------------
\* going home on the flag alone
GoHome_FlagOnly == all_done # 0
\* line 196: the TA may go home
GoHome == all_done # 0 /\ waiting_students = 0
\* a test that overlooks a single waiting student
SomeoneWaiting_OffByOne == waiting_students > 1
\* line 209
SomeoneWaiting == waiting_students > 0

\* line 190: sem_wait(&students_sem) returns
TASemWait ==
    /\ ta_pc = "sem_wait"
    /\ CanSemWait
    /\ students_sem' = students_sem - 1
    /\ ta_pc' = "lock"
    /\ consumed' = consumed + 1
    /\ UNCHANGED <<config, waiting_students, students_finished, all_done,
                   mutex, student_pc, student_i, main_pc, main_i, admitted,
                   rejected, helped, posted>>

\* line 193: pthread_mutex_lock
TALock ==
    /\ ta_pc = "lock"
    /\ CanLock(TA)
    /\ Lock(TA)
    /\ ta_pc' = "check"
    /\ UNCHANGED <<config, waiting_students, students_finished, all_done,
                   students_sem, student_pc, student_i, main_pc, main_i, ghost>>

\* the TA helping without taking the student off the chairs
TACheck_NoDecrement ==
    /\ ta_pc = "check"
    /\ IF GoHome
         THEN /\ ta_pc' = "unlock_home"
              /\ UNCHANGED helped
         ELSE IF SomeoneWaiting
                THEN /\ helped' = helped + 1
                     /\ ta_pc' = "unlock_helping"
                ELSE /\ ta_pc' = "unlock_nobody"
                     /\ UNCHANGED helped
    /\ UNCHANGED <<config, waiting_students, students_finished, all_done,
                   mutex, students_sem, student_pc, student_i, main_pc,
                   main_i, admitted, rejected, posted, consumed>>

\* lines 196, 209-213, 222: the tests and the decrement under the mutex
TACheck ==
    /\ ta_pc = "check"
    /\ IF GoHome
         THEN /\ ta_pc' = "unlock_home"
              /\ UNCHANGED <<waiting_students, helped>>
         ELSE IF SomeoneWaiting
                THEN /\ waiting_students' = waiting_students - 1
                     /\ helped' = helped + 1
                     /\ ta_pc' = "unlock_helping"
                ELSE /\ ta_pc' = "unlock_nobody"
                     /\ UNCHANGED <<waiting_students, helped>>
    /\ UNCHANGED <<config, students_finished, all_done, mutex, students_sem,
                   student_pc, student_i, main_pc, main_i, admitted, rejected,
                   posted, consumed>>

\* where the TA continues after the pthread_mutex_unlock of its branch:
\* break and pthread_exit (199, 230), sleep(1) of line 219, sleep(1) of line 226
AfterUnlock(pc) ==
    CASE pc = "unlock_home" -> "exited"
      [] pc = "unlock_helping" -> "helping_sleep"
      [] pc = "unlock_nobody" -> "nobody_sleep"

\* lines 197 / 216 / 223: the pthread_mutex_unlock that ends each branch
TAUnlock ==
    /\ ta_pc \in {"unlock_home", "unlock_helping", "unlock_nobody"}
    /\ Unlock(TA)
    /\ ta_pc' = AfterUnlock(ta_pc)
    /\ UNCHANGED <<config, waiting_students, students_finished, all_done,
                   students_sem, student_pc, student_i, main_pc, main_i, ghost>>

\* lines 219 / 226 and 181: the sleep(1) ends and the loop starts over
TALoop ==
    /\ ta_pc \in {"helping_sleep", "nobody_sleep"}
    /\ ta_pc' = "sem_wait"
    /\ UNCHANGED <<config, waiting_students, students_finished, all_done,
                   mutex, students_sem, student_pc, student_i, main_pc,
                   main_i, ghost>>

ta_thread ==
    \/ TASemWait
    \/ TALock
    \/ TACheck
    \/ TAUnlock
    \/ TALoop

\* ---- main, from the join loop on ---------------------------------------
\* a join that does not wait for the thread
Joinable_Any(s) == TRUE
\* pthread_join(student_handles[s - 1]) returns once that thread has exited
Joinable(s) == student_pc[s] = "exited"

\* lines 131-133: one round of the join loop
MainJoinStudent ==
    /\ main_pc = "join_students"
    /\ main_i < num_students
    /\ Joinable(main_i + 1)
    /\ main_i' = main_i + 1
    /\ UNCHANGED <<config, waiting_students, students_finished, all_done,
                   mutex, students_sem, student_pc, student_i, ta_pc,
                   main_pc, ghost>>

\* line 137: the join loop is over, pthread_mutex_lock
MainLock ==
    /\ main_pc = "join_students"
    /\ ~(main_i < num_students)
    /\ CanLock(MAIN)
    /\ Lock(MAIN)
    /\ main_pc' = "set_all_done"
    /\ UNCHANGED <<config, waiting_students, students_finished, all_done,
                   students_sem, student_pc, student_i, ta_pc, main_i, ghost>>

\* a flag that is flipped instead of set
ForceAllDone_Toggle(a) == 1 - a
\* a flag that is cleared instead of set
ForceAllDone_Clear(a) == 0
\* line 138: the value all_done = 1 stores, whatever the flag held
ForceAllDone(a) == 1

\* line 138: all_done = 1
MainSetAllDone ==
    /\ main_pc = "set_all_done"
    /\ all_done' = ForceAllDone(all_done)
    /\ main_pc' = "unlock"
    /\ UNCHANGED <<config, waiting_students, students_finished, mutex,
                   students_sem, student_pc, student_i, ta_pc, main_i, ghost>>

\* line 139: pthread_mutex_unlock
MainUnlock ==
    /\ main_pc = "unlock"
    /\ Unlock(MAIN)
    /\ main_pc' = "sem_post"
    /\ UNCHANGED <<config, waiting_students, students_finished, all_done,
                   students_sem, student_pc, student_i, ta_pc, main_i, ghost>>

\* main without the final wake-up
MainPost_NoWake ==
    /\ main_pc = "sem_post"
    /\ main_pc' = "join_ta"
    /\ UNCHANGED <<config, waiting_students, students_finished, all_done,
                   mutex, students_sem, student_pc, student_i, ta_pc, main_i,
                   ghost>>

\* main posting the final wake-up twice
MainPost_Twice ==
    /\ main_pc = "sem_post"
    /\ students_sem' = students_sem + 2
    /\ main_pc' = "join_ta"
    /\ UNCHANGED <<config, waiting_students, students_finished, all_done,
                   mutex, student_pc, student_i, ta_pc, main_i, ghost>>

\* line 142: sem_post(&students_sem), the final wake-up
MainPost ==
    /\ main_pc = "sem_post"
    /\ students_sem' = students_sem + 1
    /\ main_pc' = "join_ta"
    /\ UNCHANGED <<config, waiting_students, students_finished, all_done,
                   mutex, student_pc, student_i, ta_pc, main_i, ghost>>

\* lines 151-165: pthread_join(ta_handle) returns, cleanup, return 0
MainJoinTA ==
    /\ main_pc = "join_ta"
    /\ ta_pc = "exited"
    /\ main_pc' = "returned"
    /\ UNCHANGED <<config, waiting_students, students_finished, all_done,
                   mutex, students_sem, student_pc, student_i, ta_pc,
                   main_i, ghost>>

main ==
    \/ MainJoinStudent
    \/ MainLock
    \/ MainSetAllDone
    \/ MainUnlock
    \/ MainPost
    \/ MainJoinTA

Next ==
    \/ \E s \in Students : student_thread(s)
    \/ ta_thread
    \/ main

Spec == Init /\ [][Next]_vars

\* every thread that can take a step eventually takes one (preemptive,
\* parallel threads); no fairness is assumed about who gets the mutex
FairSpec ==
    /\ Spec
    /\ \A s \in 1..MaxStudents : WF_vars(s \in Students /\ student_thread(s))
    /\ WF_vars(ta_thread)
    /\ WF_vars(main)

\* the students and main are scheduled fairly and the TA is scheduled fairly
\* everywhere but at sem_wait, where it may stay blocked for ever
ClientFairSpec ==
    /\ Spec
    /\ \A s \in 1..MaxStudents : WF_vars(s \in Students /\ student_thread(s))
    /\ WF_vars(TALock \/ TACheck \/ TAUnlock \/ TALoop)
    /\ WF_vars(main)

\* ---- quantities read off the narration --------------------------------
RECURSIVE SumUpTo(_, _)
SumUpTo(f, n) == IF n = 0 THEN 0 ELSE f[n] + SumUpTo(f, n - 1)
\* successful admissions and rejections over all students
Admissions == SumUpTo(admitted, num_students)
Rejections == SumUpTo(rejected, num_students)
\* sem_post calls completed by students: every admission whose student is past line 280
StudentPosts ==
    Admissions - Cardinality({s \in Students :
                                student_pc[s] \in {"unlock_seated", "sem_post"}})
\* sem_post calls completed by main
MainPosts == IF main_pc \in {"join_ta", "returned"} THEN 1 ELSE 0

\* ---- C1 ----------------------------------------------------------------
\* C1: in every reachable state 0 <= waiting_students <= num_chairs; a step
\* raises waiting_students only by one and only from below num_chairs, and
\* lowers it only by one and only from above zero.
C1_OccupiedWithinCapacity ==
    /\ [](waiting_students >= 0 /\ waiting_students <= num_chairs)
    /\ [][/\ waiting_students' > waiting_students =>
                /\ waiting_students < num_chairs
                /\ waiting_students' = waiting_students + 1
          /\ waiting_students' < waiting_students =>
                /\ waiting_students > 0
                /\ waiting_students' = waiting_students - 1]_vars

\* every chair is taken, a student has been turned away and the TA has helped
C1_Witness ==
    /\ num_chairs >= 1
    /\ waiting_students = num_chairs
    /\ helped >= 1
    /\ Rejections >= 1

\* ---- C2 ----------------------------------------------------------------
\* C2: whenever the TA has left its loop, every student has finished:
\* students_finished = num_students and every student thread has exited.
C2_NoExitBeforeAllRetired ==
    ta_pc \in {"unlock_home", "exited"} =>
        /\ students_finished = num_students
        /\ \A s \in Students : student_pc[s] = "exited"

\* the TA has gone home after helping somebody
C2_Witness == ta_pc = "exited" /\ helped >= 1 /\ num_students >= 2

\* ---- C3 ----------------------------------------------------------------
\* C3: with every thread scheduled fairly, every run reaches the state in
\* which the TA has exited and main's pthread_join of the TA has returned.
C3_ServerTerminates == <>(ta_pc = "exited" /\ main_pc = "returned")

\* main is about to post the final wake-up while the TA sleeps on an empty semaphore
C3_Witness ==
    /\ main_pc = "sem_post"
    /\ ta_pc = "sem_wait"
    /\ students_sem = 0
    /\ helped >= 1

\* ---- C4 ----------------------------------------------------------------
\* C4: whenever the mutex is free, admissions = helps + waiting_students;
\* when the TA has exited, helps = admissions.
C4_Conservation ==
    /\ mutex = {} => Admissions = helped + waiting_students
    /\ ta_pc = "exited" => helped = Admissions

\* the mutex is free, students sit on chairs and others have been helped
C4_Witness ==
    /\ mutex = {}
    /\ waiting_students >= 1
    /\ helped >= 1
    /\ Admissions >= 3

\* ---- C5 ----------------------------------------------------------------
\* C5: the TA enters its exit branch only from the check under the mutex
\* with all_done set and nobody waiting, leaves only through that branch,
\* and while it is exited all_done stays set and waiting_students stays 0.
C5_ExitCondition ==
    /\ [](ta_pc \in {"unlock_home", "exited"} =>
            all_done # 0 /\ waiting_students = 0)
    /\ [][ta_pc' = "unlock_home" /\ ta_pc # "unlock_home" =>
            /\ ta_pc = "check"
            /\ TA \in mutex
            /\ all_done # 0
            /\ waiting_students = 0]_vars
    /\ [][ta_pc' = "exited" /\ ta_pc # "exited" =>
            ta_pc = "unlock_home" /\ TA \in mutex]_vars

\* the TA has exited after students were both seated and turned away
C5_Witness ==
    /\ ta_pc = "exited"
    /\ Admissions >= 1
    /\ Rejections >= 1

\* ---- C6 ----------------------------------------------------------------
\* C6: at most one thread holds the mutex; a thread that is at a statement
\* reading or writing waiting_students, students_finished or all_done holds
\* it; and these variables change only in a step taken while exactly one
\* thread holds the mutex.
C6_MutualExclusion ==
    /\ [](/\ Cardinality(mutex) <= 1
          /\ \A s \in Students :
                student_pc[s] \in {"try_seat", "mark_finished"} => s \in mutex
          /\ ta_pc = "check" => TA \in mutex
          /\ main_pc = "set_all_done" => MAIN \in mutex)
    /\ [][<<waiting_students, students_finished, all_done>>' #
              <<waiting_students, students_finished, all_done>> =>
            Cardinality(mutex) = 1 /\ mutex' = mutex]_vars

\* a student is inside its critical section while another and the TA wait for the mutex
C6_Witness ==
    /\ \E s \in Students : student_pc[s] = "try_seat" /\ mutex = {s}
    /\ \E s \in Students : student_pc[s] = "finish"
    /\ ta_pc = "lock"

\* ---- C7 ----------------------------------------------------------------
\* C7: the TA does not hold the mutex at sem_wait, a student does not hold
\* it at sem_post, main does not hold it at its joins or its sem_post, and
\* no thread holds it during a sleep, while it waits for the mutex or after
\* it has exited.
C7_NoLockAcrossWait ==
    /\ ta_pc \in {"sem_wait", "lock", "helping_sleep", "nobody_sleep",
                  "exited"} => TA \notin mutex
    /\ \A s \in Students :
          student_pc[s] \in {"programming", "sem_post", "finish",
                             "exited"} =>
              s \notin mutex
    /\ main_pc \in {"join_students", "sem_post", "join_ta", "returned"} =>
          MAIN \notin mutex

\* the TA is blocked on the empty semaphore and a seated student sleeps
\* while another student holds the mutex
C7_Witness ==
    /\ ta_pc = "sem_wait"
    /\ students_sem = 0
    /\ \E s \in Students :
          student_pc[s] = "programming" /\ admitted[s] = student_i[s]
    /\ \E s \in Students : mutex = {s}

\* ---- C8 ----------------------------------------------------------------
\* C8: with num_chairs = 0 no student is ever admitted: waiting_students
\* stays 0, every attempt is a rejection, no student reaches sem_post, the
\* semaphore holds at most main's final post, a student that has exited was
\* rejected HELP_REQUESTS_PER_STUDENT times, and under fair scheduling every
\* student exits.
C8_ZeroChairs ==
    /\ [](num_chairs = 0 =>
            /\ waiting_students = 0
            /\ Admissions = 0
            /\ \A s \in Students :
                  /\ student_pc[s] \notin {"unlock_seated", "sem_post"}
                  /\ rejected[s] =
                       student_i[s] + (IF student_pc[s] = "unlock_full"
                                         THEN 1 ELSE 0)
                  /\ student_pc[s] = "exited" =>
                       rejected[s] = HELP_REQUESTS_PER_STUDENT
            /\ students_sem <= MainPosts)
    /\ (num_chairs = 0) ~> (\A s \in Students : student_pc[s] = "exited")

\* no chairs, and every student has exited after being turned away each time
C8_Witness ==
    /\ num_chairs = 0
    /\ num_students >= 2
    /\ \A s \in Students :
          student_pc[s] = "exited" /\ rejected[s] = HELP_REQUESTS_PER_STUDENT

\* ---- C9 ----------------------------------------------------------------
\* C9: with num_chairs = 0 the TA never helps anybody, consumes no wake-up
\* before main's final post, goes from the check straight to its exit
\* branch, and under fair scheduling exits.
C9_ZeroChairsServer ==
    /\ [](num_chairs = 0 =>
            /\ helped = 0
            /\ ta_pc \notin {"unlock_helping", "helping_sleep",
                             "unlock_nobody", "nobody_sleep"}
            /\ ta_pc # "sem_wait" => main_pc \in {"join_ta", "returned"})
    /\ [][num_chairs = 0 /\ ta_pc = "check" /\ ta_pc' # "check" =>
            ta_pc' = "unlock_home"]_vars
    /\ (num_chairs = 0) ~> (ta_pc = "exited")

\* no chairs: the TA has consumed the final wake-up and is leaving
C9_Witness ==
    /\ num_chairs = 0
    /\ ta_pc = "unlock_home"
    /\ main_pc = "join_ta"
    /\ Rejections = num_students * HELP_REQUESTS_PER_STUDENT

\* ---- C10 ---------------------------------------------------------------
\* C10: with one student and one chair the student is never rejected, and
\* when the TA has exited it has helped HELP_REQUESTS_PER_STUDENT times.
C10_SingleStudentAlwaysSeated ==
    (num_students = 1 /\ num_chairs = 1) =>
        /\ rejected[1] = 0
        /\ ta_pc = "exited" => helped = HELP_REQUESTS_PER_STUDENT

\* ---- C11 ---------------------------------------------------------------
\* C11: with one student and one chair, when the TA consumes a wake-up
\* after main's final post it finds all_done set and nobody waiting, so that
\* this first wake-up takes it to its exit without helping in between.
C11_ExitWithinOneWake ==
    [][(/\ num_students = 1
        /\ num_chairs = 1
        /\ MainPosts = 1
        /\ ta_pc = "sem_wait"
        /\ ta_pc' = "lock") =>
            all_done # 0 /\ waiting_students = 0]_vars

\* ---- C12 ---------------------------------------------------------------
\* C12: all_done starts at 0 and no step takes it from nonzero back to 0.
C12_AllDoneMonotonic ==
    /\ all_done = 0
    /\ [][all_done # 0 => all_done' # 0]_vars

\* main has stored all_done = 1 after the last student had already set it
C12_Witness ==
    /\ main_pc = "unlock"
    /\ all_done # 0
    /\ students_finished = num_students
    /\ num_students >= 2

\* ---- C13 ---------------------------------------------------------------
\* C13: forcing all_done a second time changes nothing: applying the store
\* of line 138 twice gives what applying it once gives, and in every state
\* after main has applied it a further application leaves all_done as it is.
C13_ForceIdempotent ==
    /\ ForceAllDone(ForceAllDone(all_done)) = ForceAllDone(all_done)
    /\ main_pc \in {"unlock", "sem_post", "join_ta", "returned"} =>
          ForceAllDone(all_done) = all_done

\* main has forced the flag and released the mutex; the final post is still to come
C13_Witness ==
    /\ main_pc = "sem_post"
    /\ all_done = 1
    /\ mutex = {}
    /\ Admissions >= 1

\* ---- C14 ---------------------------------------------------------------
\* sem_post calls completed by all students
TotalPosted == SumUpTo(posted, num_students)

\* C14: a student has posted once per admission, the post of its latest
\* admission possibly still to come, and never for a rejection; the TA has
\* consumed no more events than students and main have posted, the
\* semaphore holding the difference; when main has returned, the posts are
\* the admissions plus one.
C14_WakeAccounting ==
    /\ [](/\ \A s \in Students :
                /\ posted[s] <= admitted[s]
                /\ admitted[s] <= posted[s] + 1
                /\ student_pc[s] \notin {"unlock_seated", "sem_post"} =>
                      posted[s] = admitted[s]
          /\ TotalPosted <= Admissions
          /\ consumed <= TotalPosted + MainPosts
          /\ students_sem = TotalPosted + MainPosts - consumed
          /\ main_pc = "returned" =>
                TotalPosted + MainPosts = Admissions + 1)
    /\ [][\A s \in Students :
            \/ rejected'[s] # rejected[s]
            \/ student_pc[s] = "unlock_full" /\ student_pc'[s] # "unlock_full"
            => posted' = posted /\ students_sem' = students_sem]_vars

\* the run is complete after admissions, rejections and several consumed events
C14_Witness ==
    /\ main_pc = "returned"
    /\ Admissions >= 2
    /\ Rejections >= 1
    /\ consumed = Admissions + 1

\* ---- C15 ---------------------------------------------------------------
\* C15: students_finished grows by one per finishing student, counts exactly
\* the students that have marked themselves finished, never exceeds
\* num_students, and all_done is nonzero only when it equals num_students;
\* the step that first sets all_done is the last student's.
C15_AllDoneOnlyWhenAllFinished ==
    /\ [](/\ students_finished <= num_students
          /\ students_finished =
                Cardinality({s \in Students :
                    student_pc[s] \in {"unlock_finished", "exited"}})
          /\ all_done # 0 => students_finished = num_students)
    /\ [][students_finished' # students_finished =>
            students_finished' = students_finished + 1]_vars
    /\ [][all_done = 0 /\ all_done' # 0 =>
            /\ \E s \in Students : student_pc[s] = "mark_finished"
            /\ students_finished' = num_students]_vars

\* the last of several students has just set all_done; main has not run yet
C15_Witness ==
    /\ num_students >= 2
    /\ \E s \in Students : student_pc[s] = "unlock_finished"
    /\ all_done = 1
    /\ main_pc = "join_students"
    /\ main_i = 0

\* ---- C16 ---------------------------------------------------------------
\* C16: a student's admissions and rejections add up to the attempts it has
\* made; a student that left the loop made HELP_REQUESTS_PER_STUDENT of
\* them; when main has returned the total is that number times num_students.
C16_ExactlyKAttempts ==
    /\ \A s \in Students :
          /\ admitted[s] + rejected[s] =
                student_i[s] +
                (IF student_pc[s] \in {"unlock_seated", "sem_post", "unlock_full"}
                   THEN 1 ELSE 0)
          /\ student_pc[s] \in {"finish", "mark_finished", "unlock_finished",
                                "exited"} =>
                admitted[s] + rejected[s] = HELP_REQUESTS_PER_STUDENT
    /\ main_pc = "returned" =>
          Admissions + Rejections = HELP_REQUESTS_PER_STUDENT * num_students

\* a student has exited after both seated and rejected attempts
C16_Witness ==
    \E s \in Students :
        /\ student_pc[s] = "exited"
        /\ admitted[s] >= 1
        /\ rejected[s] >= 1

\* ---- C17 ---------------------------------------------------------------
\* C17: a rejection happens with waiting_students = num_chairs under the
\* mutex, and neither it nor the unlock that follows changes
\* waiting_students, students_finished, all_done or the semaphore; after
\* the unlock the student has used one attempt and no longer holds the mutex.
C17_RejectionFrame ==
    /\ [][rejected' # rejected =>
            /\ waiting_students = num_chairs
            /\ Cardinality(mutex) = 1
            /\ UNCHANGED <<waiting_students, students_finished, all_done,
                           students_sem, mutex, student_i>>]_vars
    /\ [][\A s \in Students :
            student_pc[s] = "unlock_full" /\ student_pc'[s] # "unlock_full" =>
                /\ UNCHANGED <<waiting_students, students_finished, all_done,
                               students_sem>>
                /\ student_i'[s] = student_i[s] + 1
                /\ s \notin mutex']_vars

\* a student has been rejected while chairs exist and the semaphore is not empty
C17_Witness ==
    /\ num_chairs >= 1
    /\ students_sem >= 1
    /\ \E s \in Students : student_pc[s] = "programming" /\ rejected[s] >= 1

C19_OneSeatPerStudent == waiting_students <= num_students

\* ---- C20 ---------------------------------------------------------------
\* C20: with the students scheduled fairly, every student exits and
\* students_finished reaches num_students, whether or not the TA ever
\* returns from sem_wait.
C20_StudentsFinish ==
    <>(/\ \A s \in Students : student_pc[s] = "exited"
       /\ students_finished = num_students)

\* every student has exited although the TA never consumed a wake-up
C20_Witness ==
    /\ \A s \in Students : student_pc[s] = "exited"
    /\ students_finished = num_students
    /\ consumed = 0
    /\ ta_pc = "sem_wait"
    /\ Admissions >= 1
    /\ Rejections >= 1

\* ---- C21 ---------------------------------------------------------------
\* C21: with every thread scheduled fairly, whenever students are waiting
\* the count later returns to 0, which only helps by the TA can bring about;
\* each help takes exactly one student off the chairs, follows one consumed
\* wake-up, and the helps are the consumed wake-ups less the one in hand or
\* the one that sent the TA home; at the TA's exit they equal the admissions.
C21_EverySeatServed ==
    /\ (waiting_students > 0) ~> (waiting_students = 0)
    /\ [](/\ helped = consumed -
                (IF ta_pc \in {"lock", "check", "unlock_home", "exited"}
                   THEN 1 ELSE 0)
          /\ ta_pc = "exited" => helped = Admissions)
    /\ [][helped' # helped =>
            /\ ta_pc = "check"
            /\ helped' = helped + 1
            /\ waiting_students' = waiting_students - 1]_vars

\* two students wait on the chairs while the TA still sleeps
C21_Witness ==
    /\ waiting_students >= 2
    /\ students_sem >= 2
    /\ ta_pc = "sem_wait"
    /\ helped >= 1

\* ---- C22 ---------------------------------------------------------------
\* C22: a student may leave without ever having been seated: such a student
\* was rejected on each of its HELP_REQUESTS_PER_STUDENT attempts and posted
\* nothing, and a run with such a student ends as any other: when main has
\* returned the TA and every student have exited and nothing is pending.
\* That such a run exists with chairs and with two students is what
\* C22_Witness shows.
C22_NeverHelpedStillEnds ==
    /\ \A s \in Students :
          student_pc[s] = "exited" /\ admitted[s] = 0 =>
              rejected[s] = HELP_REQUESTS_PER_STUDENT /\ posted[s] = 0
    /\ main_pc = "returned" =>
          /\ ta_pc = "exited"
          /\ \A s \in Students : student_pc[s] = "exited"
          /\ waiting_students = 0
          /\ students_sem = 0
          /\ mutex = {}

\* a complete run, with a chair and two students, in which a student was
\* rejected every time while another was seated and helped
C22_Witness ==
    /\ num_chairs >= 1
    /\ num_students >= 2
    /\ main_pc = "returned"
    /\ ta_pc = "exited"
    /\ \E s \in Students :
          /\ admitted[s] = 0
          /\ rejected[s] = HELP_REQUESTS_PER_STUDENT
          /\ student_pc[s] = "exited"
    /\ helped >= 1

\* ---- C23 ---------------------------------------------------------------
\* C23: until main has posted the final wake-up, the pending events, the
\* one the TA has in hand included, never exceed waiting_students; so a
\* wake-up consumed before the final post finds waiting_students > 0 at the
\* check and the branch "Woke up but no students are waiting" is not taken.
C23_PendingWithinWaiting ==
    /\ [](MainPosts = 0 =>
            /\ students_sem + (IF ta_pc \in {"lock", "check"} THEN 1 ELSE 0)
                 <= waiting_students
            /\ ta_pc \notin {"unlock_nobody", "nobody_sleep"})
    /\ [][MainPosts = 0 /\ ta_pc = "check" /\ ta_pc' # "check" =>
            waiting_students > 0 /\ ta_pc' = "unlock_helping"]_vars

\* before the final post the TA checks after a wake-up, all_done already set
C23_Witness ==
    /\ MainPosts = 0
    /\ ta_pc = "check"
    /\ all_done # 0
    /\ waiting_students >= 1
    /\ students_sem >= 1

\* ---- C24 ---------------------------------------------------------------
\* C24: when the TA has left its loop the semaphore count is 0: the students
\* have posted once per admission and the TA has consumed those events and
\* main's, admissions + 1 in all.
C24_NoEventLeftAtExit ==
    ta_pc \in {"unlock_home", "exited"} =>
        /\ students_sem = 0
        /\ TotalPosted = Admissions
        /\ consumed = Admissions + 1

\* the TA is leaving after it consumed several events in a run with rejections
C24_Witness ==
    /\ ta_pc = "unlock_home"
    /\ consumed >= 3
    /\ Rejections >= 1
    /\ num_students >= 2

\* ---- C25 ---------------------------------------------------------------
\* C25: when main holds the mutex to store all_done = 1 the flag is already
\* set and every student has finished, so the store changes none of
\* waiting_students, students_finished and all_done; main's sem_post is the
\* step of main that changes shared state, raising the semaphore by one.
C25_ForceChangesNothing ==
    /\ [](main_pc \in {"set_all_done", "unlock", "sem_post", "join_ta",
                       "returned"} =>
            all_done = 1 /\ students_finished = num_students)
    /\ [][main_pc # main_pc' =>
            /\ UNCHANGED <<waiting_students, students_finished, all_done>>
            /\ IF main_pc = "sem_post"
                 THEN students_sem' = students_sem + 1
                 ELSE students_sem' = students_sem]_vars

\* main is about to store the flag while a seated student's event is pending
C25_Witness ==
    /\ main_pc = "set_all_done"
    /\ all_done = 1
    /\ waiting_students >= 1
    /\ students_sem >= 1

====
